---- MODULE Spec2Model ----
(***************************************************************************)
(* The tick clock, the sleep queue and the MLFQS step of devices/timer.c.  *)
(* One hardware timer interrupt is one atomic timer_interrupt step (the    *)
(* handler runs with interrupts masked); timer_sleep is modelled statement *)
(* by statement so that its interleaving with the handler is decided by    *)
(* the interrupt level, as on the machine.                                 *)
(*                                                                         *)
(* Spec         timer_sleep and the handler                                *)
(* SpecClock    Spec with a caller that samples timer_ticks                *)
(* FairSpec     Spec with the timer interrupting forever                   *)
(* SpecDelay    the threads use timer_?sleep and timer_?delay              *)
(* SpecLevels   Spec with callers' own critical sections and timer_ticks   *)
(* SpecCalib    timer_calibrate on machines with a stable clock            *)
(* SpecPriority the handler's priority loop over a range of inputs         *)
(* SpecLoad     the handler's load_avg update, second after second         *)
(***************************************************************************)
EXTENDS Integers, Sequences, FiniteSets

(* ---------------------------- bounds ----------------------------------- *)
\* number of kernel threads besides the idle thread
NThreads == 2
\* the model takes over Lead ticks before the first one-second boundary
Lead == 5
\* and follows the tick counter for Horizon ticks
Horizon == 7
\* timer_sleep arguments are drawn from -MaxBack .. MaxSleep
MaxSleep == 2
MaxBack == 1

(* ------------------------- program constants --------------------------- *)
\* timer interrupts per second; timer.c accepts 19..1000 (lines 13-18),
\* 100 is the value of devices/timer.h
TIMER_FREQ == 100
\* scale of the 17.14 fixed-point format
F == 16384

\* the tick counter when the threads start to use the timer: the kernel has
\* booted and calibrated, with the idle thread charged for the ticks so far
BootTicks == TIMER_FREQ - Lead
MaxTicks == BootTicks + Horizon

Idle == 0
Threads == 1..NThreads
SleepArgs == (0 - MaxBack)..MaxSleep
NiceValues == {0 - 5, 0}
InitPriorities == {10, 31}

VARIABLES
  ticks,            \* static int64_t ticks
  blocked_threads,  \* struct list blocked_threads, front first
  time_to_wake,     \* thread->time_to_wake
  priority,         \* thread->priority
  recent_cpu,       \* thread->recent_cpu (fixed point)
  nice,             \* thread->nice
  load_avg,         \* load_avg (fixed point)
  thread_mlfqs,     \* the scheduling-policy flag
  status,           \* thread->status
  current,          \* thread_current()
  intr_level,       \* the CPU's interrupt-enable state
  pc,               \* each thread's position in timer_sleep
  arg,              \* timer_sleep's parameter TICKS of the call in progress
  x,                \* timer_sleep's local x (saved interrupt level)
  unblocked,        \* the threads the handler step just taken passed to thread_unblock, in call order
  reprioritized,    \* queued threads whose priority was rewritten since their insertion
  handled,          \* number of timer_interrupt invocations so far
  then,             \* a value returned by timer_ticks (-1: none read yet)
  mark,             \* the value of handled when THEN was read
  loops_per_tick,   \* static unsigned loops_per_tick (the set of its 1 bits)
  high_bit,         \* timer_calibrate's local high_bit
  test_bit,         \* timer_calibrate's local test_bit
  cal,              \* the position of timer_calibrate
  capacity,         \* the busy-wait iterations that fit in one tick of this machine
  results,          \* loops_per_tick as each completed timer_calibrate left it
  call,             \* the real-time call each thread is in: <<function, num, denom>>
  loops,            \* busy_wait's parameter LOOPS of the call in progress
  handler_levels,   \* the interrupt level at the handler's entry, after its timer_ticks calls, at its return
  old_level         \* timer_ticks's local old_level of the call in progress

vars == <<ticks, blocked_threads, time_to_wake, priority, recent_cpu, nice,
          load_avg, thread_mlfqs, status, current, intr_level, pc, arg, x,
          unblocked, reprioritized, handled, then, mark,
          loops_per_tick, high_bit, test_bit, cal, capacity, results,
          call, loops, handler_levels, old_level>>

\* the state of timer_calibrate
calib_vars == <<loops_per_tick, high_bit, test_bit, cal, capacity, results>>

\* the state of the real-time sleeps and delays
delay_vars == <<call, loops>>

\* the interrupt levels that the handler and timer_ticks record
level_vars == <<handler_levels, old_level>>

(* ------------------------------ helpers -------------------------------- *)
Range(s) == {s[i] : i \in 1..Len(s)}

Min(S) == CHOOSE m \in S : \A n \in S : m <= n

Abs(a) == IF a < 0 THEN 0 - a ELSE a

\* the element of a one-element set
TheOne(S) == CHOOSE v \in S : TRUE

\* C integer division: truncation toward zero (the operands are bound once)
CDiv(a, b) ==
  TheOne({IF (v[1] < 0) = (v[2] < 0) THEN Abs(v[1]) \div Abs(v[2])
          ELSE 0 - (Abs(v[1]) \div Abs(v[2])) : v \in {<<a, b>>}})

\* C remainder
CMod(a, b) == a - b * CDiv(a, b)

(* --------------------------- fixed point ------------------------------- *)
int_to_fixed(n) == n * F
add_fixed_int(a, n) == a + n * F
sub_fixed_int(a, n) == a - n * F
add_two_fixed(a, b) == a + b
sub_two_fixed(a, b) == a - b
mul_fixed_int(a, n) == a * n
div_fixed_int(a, n) == CDiv(a, n)
mul_two_fixed(a, b) == CDiv(a * b, F)
div_two_fixed(a, b) == CDiv(a * F, b)
fixed_to_nearest_int(a) ==
  TheOne({IF v >= 0 THEN CDiv(v + F \div 2, F) ELSE CDiv(v - F \div 2, F) : v \in {a}})

(* --------------------------- interrupts -------------------------------- *)
\* intr_disable() leaves the level INTR_OFF (and returns the previous one)
intr_disable(level) == "OFF"

\* intr_set_level(x)
intr_set_level(level) == level

\* timer_ticks(): the counter, read between intr_disable and intr_set_level(old_level)
timer_ticks(counter) == counter

\* mutant: timer_ticks ends with intr_enable ()
timer_ticks_level_enabled(level) == "ON"

\* the interrupt level timer_ticks returns with when called at LEVEL:
\* old_level = intr_disable () (line 89), intr_set_level (old_level) (line 91)
timer_ticks_level(level) ==
  LET saved == level
  IN  intr_set_level(saved)

\* mutant: the operands of the subtraction exchanged
timer_elapsed_swapped(counter, t0) == t0 - timer_ticks(counter)

timer_elapsed(counter, t0) == timer_ticks(counter) - t0

(* --------------------------- sleep queue ------------------------------- *)
\* mutant: the comparison looks at time_to_wake only
comparator_by_ticks_only(first, second, ttw, pri) ==
  IF ttw[first] < ttw[second] THEN TRUE
  ELSE FALSE

\* mutant: ties ordered by ascending priority
comparator_by_ticks_asc(first, second, ttw, pri) ==
  IF ttw[first] < ttw[second] THEN TRUE
  ELSE IF ttw[first] = ttw[second] /\ pri[first] < pri[second] THEN TRUE
  ELSE FALSE

comparator_by_ticks(first, second, ttw, pri) ==
  IF ttw[first] < ttw[second] THEN TRUE
  ELSE IF ttw[first] = ttw[second] /\ pri[first] > pri[second] THEN TRUE
  ELSE FALSE

\* list_insert_ordered: before the first element that ELEM is less than
list_insert_ordered(list, elem, ttw, pri) ==
  LET S == {i \in 1..Len(list) : comparator_by_ticks(elem, list[i], ttw, pri)}
      p == IF S = {} THEN Len(list) + 1 ELSE Min(S)
  IN  SubSeq(list, 1, p - 1) \o <<elem>> \o SubSeq(list, p, Len(list))

\* mutant: the drain stops at a thread whose time_to_wake is the current tick
RECURSIVE DrainCount_late(_, _, _)
DrainCount_late(list, ttw, now) ==
  IF list = <<>> THEN 0
  ELSE IF ttw[Head(list)] >= now THEN 0
  ELSE 1 + DrainCount_late(Tail(list), ttw, now)

\* the handler's drain loop: how many front elements it removes at tick now
RECURSIVE DrainCount(_, _, _)
DrainCount(list, ttw, now) ==
  IF list = <<>> THEN 0
  ELSE IF ttw[Head(list)] > now THEN 0
  ELSE 1 + DrainCount(Tail(list), ttw, now)

Drained(list, ttw, now) == SubSeq(list, 1, DrainCount(list, ttw, now))

\* mutant: the drain without the list_remove of line 218
Remaining_kept(list, ttw, now) == list

Remaining(list, ttw, now) == SubSeq(list, DrainCount(list, ttw, now) + 1, Len(list))

(* ------------------------------ threads -------------------------------- *)
ReadySet(st) == {t \in Threads : st[t] = "READY"}

\* the interrupt level a thread resumes with: inside thread_block interrupts
\* are off until timer_sleep restores x; a preempted thread returns from the
\* interrupt with interrupts on; the idle thread waits with interrupts on
ResumeLevel(t) == IF t # Idle /\ pc[t] = "resume" THEN "OFF" ELSE "ON"

(* ----------------------------- unsigned -------------------------------- *)
\* an unsigned is the set of the positions of its 1 bits, 0..UINT_BITS-1
UINT_BITS == 32

\* the unsigned of a number below 2^31
Bits(n) == {i \in 0..30 : (n \div 2^i) % 2 = 1}

\* the number of an unsigned below 2^31
RECURSIVE unsigned_value(_)
unsigned_value(b) ==
  IF b = {} THEN 0
  ELSE LET i == CHOOSE j \in b : TRUE IN 2^i + unsigned_value(b \ {i})

\* b << k and b >> k on UINT_BITS bits
shift_left(b, k) == {i + k : i \in b} \cap (0..(UINT_BITS - 1))

shift_right(b, k) == {i - k : i \in b} \cap (0..(UINT_BITS - 1))

\* a | b
bit_or(a, b) == a \cup b

\* a > b as unsigned numbers: the highest bit they differ in is a's
unsigned_greater(a, b) ==
  /\ a # b
  /\ LET d == (a \ b) \cup (b \ a)
     IN  (CHOOSE i \in d : \A j \in d : j <= i) \in a

\* no real-time call in progress
NoCall == <<"none", 0, 0>>

\* loops_per_tick when the threads start: timer_calibrate has run at boot
BootLoops == Bits(1536)

\* timer_init: the counter and the sleep queue as boot leaves them; the window
\* of observation opens Lead ticks before the first one-second boundary
Init ==
  /\ ticks = BootTicks
  /\ blocked_threads = <<>>
  /\ time_to_wake = [t \in Threads |-> 0]
  /\ priority \in [Threads -> InitPriorities]
  /\ recent_cpu = [t \in Threads \cup {Idle} |-> 0]
  /\ thread_mlfqs \in BOOLEAN
  /\ nice \in [Threads -> NiceValues]
  /\ thread_mlfqs \/ nice = [t \in Threads |-> 0]
  /\ load_avg = 0
  /\ status = [t \in Threads |-> IF t = 1 THEN "RUNNING" ELSE "READY"]
  /\ current = 1
  /\ intr_level = "ON"
  /\ pc = [t \in Threads |-> "run"]
  /\ arg = [t \in Threads |-> 0]
  /\ x = [t \in Threads |-> "ON"]
  /\ unblocked = <<>>
  /\ reprioritized = {}
  /\ handled = 0
  /\ then = 0 - 1
  /\ mark = 0
  /\ loops_per_tick = BootLoops
  /\ high_bit = {}
  /\ test_bit = {}
  /\ cal = "idle"
  /\ capacity = BootLoops
  /\ results = <<>>
  /\ call = [t \in Threads |-> NoCall]
  /\ loops = [t \in Threads |-> 0]
  /\ handler_levels = <<"OFF", "OFF", "OFF">>
  /\ old_level = [t \in Threads |-> "ON"]

(* ------------------------------- MLFQS --------------------------------- *)
\* line 238: list_size (ready_list) + thread_current () == get_idle_thread () ? 0 : 1
\* parses as ((size + current) == idle) ? 0 : 1, SIZE scaling the thread
\* pointer.  With size = 0 the pointers are compared as they are; a pointer
\* moved SIZE > 0 structures past a thread is outside its object, and
\* whether it then equals the idle thread's address is up to the build.
ready_factor(size, cur, coincide) ==
  IF size = 0 THEN (IF cur = Idle THEN 0 ELSE 1)
  ELSE IF cur = Idle THEN 1
  ELSE IF coincide THEN 0 ELSE 1

\* mutant: the old load_avg enters with weight 60/60
calc_load_avg_undamped(la, size, cur, coincide) ==
  LET x1 == int_to_fixed(60)
      x2 == mul_two_fixed(div_fixed_int(x1, 60), la)
      x3 == int_to_fixed(1)
      x4 == mul_fixed_int(div_fixed_int(x3, 60), ready_factor(size, cur, coincide))
  IN  add_two_fixed(x2, x4)

\* lines 232-239
calc_load_avg(la, size, cur, coincide) ==
  LET x1 == int_to_fixed(59)
      x2 == mul_two_fixed(div_fixed_int(x1, 60), la)
      x3 == int_to_fixed(1)
      x4 == mul_fixed_int(div_fixed_int(x3, 60), ready_factor(size, cur, coincide))
  IN  add_two_fixed(x2, x4)

\* lines 247-251
calc_recent_cpu(la, rc, nc) ==
  TheOne({LET x2 == add_fixed_int(x1, 1)
              x1b == div_two_fixed(x1, x2)
              x1c == mul_two_fixed(x1b, rc)
          IN  add_fixed_int(x1c, nc) : x1 \in {mul_fixed_int(la, 2)}})

\* mutant: the decay uses the load_avg from before this interrupt's update
decay_load_avg_stale(before, updated) == before

\* line 247 reads the global load_avg, which line 239 has just assigned
decay_load_avg(before, updated) == updated

\* mutant: the priority loop without lines 267-270
calc_priority_unclamped(rc, nc) ==
  LET x1 == div_fixed_int(rc, 4)
      x2 == sub_two_fixed(64, x1)
      x2b == sub_fixed_int(x2, nc * 2)
  IN  fixed_to_nearest_int(x2b)

\* lines 262-270
calc_priority(rc, nc) ==
  LET x1 == div_fixed_int(rc, 4)
      x2 == sub_two_fixed(64, x1)
      x2b == sub_fixed_int(x2, nc * 2)
  IN  TheOne({IF p > 63 THEN 63 ELSE IF p < 0 THEN 0 ELSE p :
                p \in {fixed_to_nearest_int(x2b)}})

\* line 230 and line 257: the tests that guard the per-second block and,
\* inside it, the priority loop
second_tick(now) == CMod(timer_ticks(now), TIMER_FREQ) = 0

priority_tick(now) == second_tick(now) /\ CMod(timer_ticks(now), 4) = 0

\* mutant: the MLFQS block runs whatever the flag
mlfqs_active_always(flag) == TRUE

\* line 225
mlfqs_active(flag) == flag

\* mutant: the running thread is charged without the test for the idle thread
mlfqs_recent_cpu_tick_all(rc, cur) ==
  [t \in DOMAIN rc |-> IF t = cur THEN add_fixed_int(rc[t], 1) ELSE rc[t]]

\* lines 227-228
mlfqs_recent_cpu_tick(rc, cur) ==
  [t \in DOMAIN rc |->
     IF t = cur /\ cur # Idle THEN add_fixed_int(rc[t], 1) ELSE rc[t]]

(* ------------------------------ scheduler ------------------------------ *)
\* next_thread_to_run: some ready thread, the idle thread when there is none
Candidates(st) == IF ReadySet(st) = {} THEN {Idle} ELSE ReadySet(st)

Dispatch(st, next) == [t \in Threads |-> IF t = next THEN "RUNNING" ELSE st[t]]

(* ------------------------------ timer_sleep ---------------------------- *)
\* mutant: timer_sleep without the intr_disable of line 108
timer_sleep_enter_unmasked(t, n) ==
  /\ current = t /\ status[t] = "RUNNING" /\ pc[t] = "run"
  /\ ticks < MaxTicks /\ ticks + n <= MaxTicks
  /\ x' = [x EXCEPT ![t] = intr_level]
  /\ arg' = [arg EXCEPT ![t] = n]
  /\ pc' = [pc EXCEPT ![t] = "wake"]
  /\ unblocked' = <<>>
  /\ UNCHANGED <<handled, then, mark>>
  /\ UNCHANGED <<calib_vars, delay_vars, level_vars>>
  /\ UNCHANGED <<ticks, blocked_threads, time_to_wake, priority, recent_cpu, nice,
                 load_avg, thread_mlfqs, status, current, intr_level, reprioritized>>

\* line 108, whoever calls timer_sleep
timer_sleep_begin(t, n) ==
  /\ current = t /\ status[t] = "RUNNING" /\ pc[t] = "run"
  /\ ticks < MaxTicks /\ ticks + n <= MaxTicks
  /\ x' = [x EXCEPT ![t] = intr_level]
  /\ intr_level' = intr_disable(intr_level)
  /\ arg' = [arg EXCEPT ![t] = n]
  /\ pc' = [pc EXCEPT ![t] = "wake"]
  /\ unblocked' = <<>>
  /\ UNCHANGED <<handled, then, mark>>
  /\ UNCHANGED <<calib_vars, loops, level_vars>>
  /\ UNCHANGED <<ticks, blocked_threads, time_to_wake, priority, recent_cpu, nice,
                 load_avg, thread_mlfqs, status, current, reprioritized>>

\* a thread calls timer_sleep (n)
timer_sleep_enter(t, n) ==
  /\ timer_sleep_begin(t, n)
  /\ UNCHANGED call

timer_sleep_wake(t) ==
  /\ current = t /\ pc[t] = "wake"
  /\ time_to_wake' = [time_to_wake EXCEPT ![t] = timer_ticks(ticks) + arg[t]]
  /\ intr_level' = timer_ticks_level(intr_level)
  /\ pc' = [pc EXCEPT ![t] = "insert"]
  /\ unblocked' = <<>>
  /\ UNCHANGED <<handled, then, mark>>
  /\ UNCHANGED <<calib_vars, delay_vars, level_vars>>
  /\ UNCHANGED <<ticks, blocked_threads, priority, recent_cpu, nice, load_avg,
                 thread_mlfqs, status, current, arg, x, reprioritized>>

\* mutant: list_push_back in place of list_insert_ordered
timer_sleep_insert_back(t) ==
  /\ current = t /\ pc[t] = "insert"
  /\ blocked_threads' = blocked_threads \o <<t>>
  /\ pc' = [pc EXCEPT ![t] = "block"]
  /\ unblocked' = <<>>
  /\ UNCHANGED <<handled, then, mark>>
  /\ UNCHANGED <<calib_vars, delay_vars, level_vars>>
  /\ UNCHANGED <<ticks, time_to_wake, priority, recent_cpu, nice, load_avg,
                 thread_mlfqs, status, current, intr_level, arg, x, reprioritized>>

\* mutant: list_push_front in place of list_insert_ordered
timer_sleep_insert_front(t) ==
  /\ current = t /\ pc[t] = "insert"
  /\ blocked_threads' = <<t>> \o blocked_threads
  /\ pc' = [pc EXCEPT ![t] = "block"]
  /\ unblocked' = <<>>
  /\ UNCHANGED <<handled, then, mark>>
  /\ UNCHANGED <<calib_vars, delay_vars, level_vars>>
  /\ UNCHANGED <<ticks, time_to_wake, priority, recent_cpu, nice, load_avg,
                 thread_mlfqs, status, current, intr_level, arg, x, reprioritized>>

timer_sleep_insert(t) ==
  /\ current = t /\ pc[t] = "insert"
  /\ blocked_threads' = list_insert_ordered(blocked_threads, t, time_to_wake, priority)
  /\ pc' = [pc EXCEPT ![t] = "block"]
  /\ unblocked' = <<>>
  /\ UNCHANGED <<handled, then, mark>>
  /\ UNCHANGED <<calib_vars, delay_vars, level_vars>>
  /\ UNCHANGED <<ticks, time_to_wake, priority, recent_cpu, nice, load_avg,
                 thread_mlfqs, status, current, intr_level, arg, x, reprioritized>>

timer_sleep_block(t) ==
  /\ current = t /\ pc[t] = "block"
  /\ LET st == [status EXCEPT ![t] = "BLOCKED"]
     IN  \E next \in Candidates(st) :
           /\ status' = Dispatch(st, next)
           /\ current' = next
           /\ intr_level' = ResumeLevel(next)
  /\ pc' = [pc EXCEPT ![t] = "resume"]
  /\ unblocked' = <<>>
  /\ UNCHANGED <<handled, then, mark>>
  /\ UNCHANGED <<calib_vars, delay_vars, level_vars>>
  /\ UNCHANGED <<ticks, blocked_threads, time_to_wake, priority, recent_cpu, nice,
                 load_avg, thread_mlfqs, arg, x, reprioritized>>

timer_sleep_return(t) ==
  /\ current = t /\ pc[t] = "resume"
  /\ intr_level' = intr_set_level(x[t])
  /\ pc' = [pc EXCEPT ![t] = "run"]
  /\ arg' = [arg EXCEPT ![t] = 0]
  /\ time_to_wake' = [time_to_wake EXCEPT ![t] = 0]
  /\ call' = [call EXCEPT ![t] = NoCall]
  /\ unblocked' = <<>>
  /\ UNCHANGED <<handled, then, mark>>
  /\ UNCHANGED <<calib_vars, loops, level_vars>>
  /\ UNCHANGED <<ticks, blocked_threads, priority, recent_cpu, nice,
                 load_avg, thread_mlfqs, status, current, x, reprioritized>>

(* ---------------------------- timer_interrupt -------------------------- *)
\* line 205
next_tick(counter) == counter + 1

\* thread_unblock on each drained thread
Unblock(st, woken) == [t \in Threads |-> IF t \in Range(woken) THEN "READY" ELSE st[t]]

timer_interrupt ==
  /\ intr_level = "ON"
  /\ ticks < MaxTicks
  /\ handled' = handled + 1
  /\ UNCHANGED <<then, mark>>
  /\ UNCHANGED <<calib_vars, delay_vars, old_level>>
  \* an external interrupt handler is entered with interrupts off (line 203:
  \* x = intr_disable ()); it calls timer_ticks in the drain (line 216) and
  \* in the MLFQS block (lines 230, 257); line 279: intr_set_level (x)
  /\ LET entry == "OFF"
         saved == entry
         inside == intr_disable(entry)
         calls == blocked_threads # <<>> \/ mlfqs_active(thread_mlfqs)
         after == IF calls THEN timer_ticks_level(inside) ELSE inside
     IN  handler_levels' = <<entry, after, intr_set_level(saved)>>
  /\ LET now == next_tick(ticks)
         woken == Drained(blocked_threads, time_to_wake, timer_ticks(now))
         queue == Remaining(blocked_threads, time_to_wake, timer_ticks(now))
         st1 == Unblock(status, woken)
         size == Cardinality(ReadySet(st1))
         rc1 == IF mlfqs_active(thread_mlfqs)
                THEN mlfqs_recent_cpu_tick(recent_cpu, current) ELSE recent_cpu
         persec == mlfqs_active(thread_mlfqs) /\ second_tick(now)
         perprio == mlfqs_active(thread_mlfqs) /\ priority_tick(now)
     IN  /\ ticks' = now
         /\ blocked_threads' = queue
         /\ unblocked' = woken
         /\ \E coincide \in BOOLEAN :
              LET la == IF persec THEN calc_load_avg(load_avg, size, current, coincide)
                        ELSE load_avg
                  rc2 == IF persec
                         THEN [t \in DOMAIN rc1 |->
                                 IF t # Idle
                                 THEN calc_recent_cpu(decay_load_avg(load_avg, la),
                                                      rc1[t], nice[t])
                                 ELSE rc1[t]]
                         ELSE rc1
                  pr == IF perprio
                        THEN [t \in Threads |-> calc_priority(rc2[t], nice[t])]
                        ELSE priority
              IN  /\ load_avg' = la
                  /\ recent_cpu' = rc2
                  /\ priority' = pr
                  /\ reprioritized' = (reprioritized \cup {t \in Threads : pr[t] # priority[t]})
                                        \cap Range(queue)
         \* intr_yield_on_return: the interrupted thread yields before the handler's iret
         /\ LET st2 == [t \in Threads |-> IF t = current /\ st1[t] = "RUNNING"
                                          THEN "READY" ELSE st1[t]]
            IN  \E next \in Candidates(st2) :
                  /\ status' = Dispatch(st2, next)
                  /\ current' = next
                  /\ intr_level' = ResumeLevel(next)
  /\ UNCHANGED <<time_to_wake, nice, thread_mlfqs, pc, arg, x>>

\* a caller reads the clock: then = timer_ticks (), to be passed to timer_elapsed
timer_ticks_read ==
  /\ then = 0 - 1
  /\ then' = timer_ticks(ticks)
  /\ mark' = handled
  /\ intr_level' = timer_ticks_level(intr_level)
  /\ unblocked' = <<>>
  /\ UNCHANGED <<calib_vars, delay_vars, level_vars>>
  /\ UNCHANGED <<ticks, blocked_threads, time_to_wake, priority, recent_cpu, nice,
                 load_avg, thread_mlfqs, status, current, pc, arg, x, reprioritized,
                 handled>>

Next ==
  \/ \E t \in Threads, n \in SleepArgs : timer_sleep_enter(t, n)
  \/ \E t \in Threads : timer_sleep_wake(t)
  \/ \E t \in Threads : timer_sleep_insert(t)
  \/ \E t \in Threads : timer_sleep_block(t)
  \/ \E t \in Threads : timer_sleep_return(t)
  \/ timer_interrupt

Spec == Init /\ [][Next]_vars

\* the same program with a caller that samples the clock
NextClock ==
  \/ Next
  \/ timer_ticks_read

SpecClock == Init /\ [][NextClock]_vars

\* the timer chip keeps interrupting, and the running thread keeps executing
ThreadStep ==
  \/ \E t \in Threads : timer_sleep_wake(t)
  \/ \E t \in Threads : timer_sleep_insert(t)
  \/ \E t \in Threads : timer_sleep_block(t)
  \/ \E t \in Threads : timer_sleep_return(t)

FairSpec == Spec /\ WF_vars(timer_interrupt) /\ WF_vars(ThreadStep)

(* --------------------- real-time sleeps and delays --------------------- *)
\* the durations the threads ask for: below one tick, one tick and more
MsArgs == {5, 25}
UsArgs == {9999, 10000}
NsSleepArgs == {1000000, 10000000}
NsDelayArgs == {1000, 1000000}

\* line 326: NUM/DENOM seconds in timer ticks
real_time_ticks(num, denom) == CDiv(num * TIMER_FREQ, denom)

\* line 351: the iterations busy_wait is asked for
real_time_loops(lpt, num, denom) ==
  CDiv(CDiv(lpt * num, 1000) * TIMER_FREQ, CDiv(denom, 1000))

\* real_time_delay (lines 346-352): the caller enters busy_wait
real_time_delay_begin(t, num, denom) ==
  /\ current = t /\ status[t] = "RUNNING" /\ pc[t] = "run"
  /\ CMod(denom, 1000) = 0
  /\ loops' = [loops EXCEPT ![t] = real_time_loops(unsigned_value(loops_per_tick), num, denom)]
  /\ pc' = [pc EXCEPT ![t] = "spin"]
  /\ unblocked' = <<>>
  /\ UNCHANGED <<handled, then, mark>>
  /\ UNCHANGED <<calib_vars, level_vars>>
  /\ UNCHANGED <<ticks, blocked_threads, time_to_wake, priority, recent_cpu, nice,
                 load_avg, thread_mlfqs, status, current, intr_level, arg, x,
                 reprioritized>>

\* mutant: real_time_sleep without its test, always timer_sleep
real_time_sleep_always(t, num, denom) ==
  /\ intr_level = "ON"
  /\ timer_sleep_begin(t, real_time_ticks(num, denom))
  /\ call' = [call EXCEPT ![t] = <<"real_time_sleep", num, denom>>]

\* real_time_sleep (lines 317-342)
real_time_sleep(t, num, denom) ==
  /\ intr_level = "ON"
  /\ IF real_time_ticks(num, denom) > 0
     THEN timer_sleep_begin(t, real_time_ticks(num, denom))
     ELSE real_time_delay_begin(t, num, denom)
  /\ call' = [call EXCEPT ![t] = <<"real_time_sleep", num, denom>>]

\* real_time_delay called by the timer_?delay functions
real_time_delay(t, num, denom) ==
  /\ real_time_delay_begin(t, num, denom)
  /\ call' = [call EXCEPT ![t] = <<"real_time_delay", num, denom>>]

\* busy_wait (lines 309-314) has counted LOOPS down and the call returns
busy_wait_return(t) ==
  /\ current = t /\ status[t] = "RUNNING" /\ pc[t] = "spin"
  /\ pc' = [pc EXCEPT ![t] = "run"]
  /\ loops' = [loops EXCEPT ![t] = 0]
  /\ call' = [call EXCEPT ![t] = NoCall]
  /\ unblocked' = <<>>
  /\ UNCHANGED <<handled, then, mark>>
  /\ UNCHANGED <<calib_vars, level_vars>>
  /\ UNCHANGED <<ticks, blocked_threads, time_to_wake, priority, recent_cpu, nice,
                 load_avg, thread_mlfqs, status, current, intr_level, arg, x,
                 reprioritized>>

timer_msleep(t, ms) == real_time_sleep(t, ms, 1000)

timer_usleep(t, us) == real_time_sleep(t, us, 1000 * 1000)

timer_nsleep(t, ns) == real_time_sleep(t, ns, 1000 * 1000 * 1000)

timer_mdelay(t, ms) == real_time_delay(t, ms, 1000)

timer_udelay(t, us) == real_time_delay(t, us, 1000 * 1000)

timer_ndelay(t, ns) == real_time_delay(t, ns, 1000 * 1000 * 1000)

\* the threads use the real-time interface
NextDelay ==
  \/ \E t \in Threads, ms \in MsArgs : timer_msleep(t, ms)
  \/ \E t \in Threads, us \in UsArgs : timer_usleep(t, us)
  \/ \E t \in Threads, ns \in NsSleepArgs : timer_nsleep(t, ns)
  \/ \E t \in Threads, ms \in MsArgs : timer_mdelay(t, ms)
  \/ \E t \in Threads, us \in UsArgs : timer_udelay(t, us)
  \/ \E t \in Threads, ns \in NsDelayArgs : timer_ndelay(t, ns)
  \/ \E t \in Threads : busy_wait_return(t)
  \/ \E t \in Threads : timer_sleep_wake(t)
  \/ \E t \in Threads : timer_sleep_insert(t)
  \/ \E t \in Threads : timer_sleep_block(t)
  \/ \E t \in Threads : timer_sleep_return(t)
  \/ timer_interrupt

SpecDelay == Init /\ [][NextDelay]_vars

(* ----------------------- callers' critical sections ------------------- *)
\* a thread disables interrupts around code of its own, which may call the
\* timer
caller_intr_disable(t) ==
  /\ current = t /\ status[t] = "RUNNING" /\ pc[t] = "run"
  /\ intr_level = "ON"
  /\ intr_level' = intr_disable(intr_level)
  /\ unblocked' = <<>>
  /\ UNCHANGED <<handled, then, mark>>
  /\ UNCHANGED <<calib_vars, delay_vars, level_vars>>
  /\ UNCHANGED <<ticks, blocked_threads, time_to_wake, priority, recent_cpu, nice,
                 load_avg, thread_mlfqs, status, current, pc, arg, x, reprioritized>>

\* and enables them again
caller_intr_enable(t) ==
  /\ current = t /\ status[t] = "RUNNING" /\ pc[t] = "run"
  /\ intr_level = "OFF"
  /\ intr_level' = intr_set_level("ON")
  /\ unblocked' = <<>>
  /\ UNCHANGED <<handled, then, mark>>
  /\ UNCHANGED <<calib_vars, delay_vars, level_vars>>
  /\ UNCHANGED <<ticks, blocked_threads, time_to_wake, priority, recent_cpu, nice,
                 load_avg, thread_mlfqs, status, current, pc, arg, x, reprioritized>>

\* timer_ticks, line 89: old_level = intr_disable ()
timer_ticks_enter(t) ==
  /\ current = t /\ status[t] = "RUNNING" /\ pc[t] = "run"
  /\ old_level' = [old_level EXCEPT ![t] = intr_level]
  /\ intr_level' = intr_disable(intr_level)
  /\ pc' = [pc EXCEPT ![t] = "ticks"]
  /\ unblocked' = <<>>
  /\ UNCHANGED <<handled, then, mark>>
  /\ UNCHANGED <<calib_vars, delay_vars, handler_levels>>
  /\ UNCHANGED <<ticks, blocked_threads, time_to_wake, priority, recent_cpu, nice,
                 load_avg, thread_mlfqs, status, current, arg, x, reprioritized>>

\* timer_ticks, lines 90-92: the counter is read, intr_set_level (old_level)
timer_ticks_leave(t) ==
  /\ current = t /\ pc[t] = "ticks"
  /\ intr_level' = intr_set_level(old_level[t])
  /\ old_level' = [old_level EXCEPT ![t] = "ON"]
  /\ pc' = [pc EXCEPT ![t] = "run"]
  /\ unblocked' = <<>>
  /\ UNCHANGED <<handled, then, mark>>
  /\ UNCHANGED <<calib_vars, delay_vars, handler_levels>>
  /\ UNCHANGED <<ticks, blocked_threads, time_to_wake, priority, recent_cpu, nice,
                 load_avg, thread_mlfqs, status, current, arg, x, reprioritized>>

\* the program with callers that read the clock and sleep inside critical
\* sections of their own
NextLevels ==
  \/ Next
  \/ \E t \in Threads : timer_ticks_enter(t)
  \/ \E t \in Threads : timer_ticks_leave(t)
  \/ \E t \in Threads : caller_intr_disable(t)
  \/ \E t \in Threads : caller_intr_enable(t)

SpecLevels == Init /\ [][NextLevels]_vars

(* ---------------------------- timer_calibrate -------------------------- *)
\* how often timer_calibrate is run
MaxRuns == 2

\* machines: the number of busy_wait iterations that fit in one tick
Capacities ==
  {Bits(1000), Bits(1026), Bits(3000), Bits(70000), Bits(1048575),
   Bits(2147483647), {31}}

\* too_many_loops on a stable clock: LOOPS iterations last longer than
\* one tick exactly if LOOPS exceeds the machine's capacity
too_many_loops(n, cap) == unsigned_greater(n, cap)

\* the kernel before timer_calibrate: static storage is zero, the initial
\* thread runs with interrupts on, nobody sleeps
InitCalib ==
  /\ ticks = 0
  /\ blocked_threads = <<>>
  /\ time_to_wake = [t \in Threads |-> 0]
  /\ priority = [t \in Threads |-> 31]
  /\ recent_cpu = [t \in Threads \cup {Idle} |-> 0]
  /\ thread_mlfqs = FALSE
  /\ nice = [t \in Threads |-> 0]
  /\ load_avg = 0
  /\ status = [t \in Threads |-> IF t = 1 THEN "RUNNING" ELSE "READY"]
  /\ current = 1
  /\ intr_level = "ON"
  /\ pc = [t \in Threads |-> "run"]
  /\ arg = [t \in Threads |-> 0]
  /\ x = [t \in Threads |-> "ON"]
  /\ unblocked = <<>>
  /\ reprioritized = {}
  /\ handled = 0
  /\ then = 0 - 1
  /\ mark = 0
  /\ loops_per_tick = {}
  /\ high_bit = {}
  /\ test_bit = {}
  /\ cal = "idle"
  /\ capacity \in Capacities
  /\ results = <<>>
  /\ call = [t \in Threads |-> NoCall]
  /\ loops = [t \in Threads |-> 0]
  /\ handler_levels = <<"OFF", "OFF", "OFF">>
  /\ old_level = [t \in Threads |-> "ON"]

\* what timer_calibrate leaves alone
calib_frame ==
  UNCHANGED <<ticks, blocked_threads, time_to_wake, priority, recent_cpu, nice,
              load_avg, thread_mlfqs, status, current, intr_level, pc, arg, x,
              unblocked, reprioritized, handled, then, mark, capacity, call,
              loops, handler_levels, old_level>>

\* mutant: loops_per_tick is initialised only while it is still zero
timer_calibrate_begin_once ==
  /\ cal = "idle" /\ Len(results) < MaxRuns
  /\ intr_level = "ON"
  /\ loops_per_tick' = IF loops_per_tick = {} THEN shift_left({0}, 10) ELSE loops_per_tick
  /\ cal' = "double"
  /\ UNCHANGED <<high_bit, test_bit, results>>
  /\ calib_frame

\* lines 64-69
timer_calibrate_begin ==
  /\ cal = "idle" /\ Len(results) < MaxRuns
  /\ intr_level = "ON"
  /\ loops_per_tick' = shift_left({0}, 10)
  /\ cal' = "double"
  /\ UNCHANGED <<high_bit, test_bit, results>>
  /\ calib_frame

\* lines 70-78: one test of the doubling loop; the ASSERT of line 73 halts
\* the kernel, and leaving the loop enters the refinement
timer_calibrate_double ==
  /\ cal = "double"
  /\ IF ~too_many_loops(shift_left(loops_per_tick, 1), capacity)
     THEN /\ loops_per_tick' = shift_left(loops_per_tick, 1)
          /\ cal' = IF shift_left(loops_per_tick, 1) # {} THEN "double" ELSE "panic"
          /\ UNCHANGED <<high_bit, test_bit>>
     ELSE /\ high_bit' = loops_per_tick
          /\ test_bit' = shift_right(loops_per_tick, 1)
          /\ cal' = "refine"
          /\ UNCHANGED loops_per_tick
  /\ UNCHANGED results
  /\ calib_frame

\* lines 78-82: one turn of the refinement loop, or its end
timer_calibrate_refine ==
  /\ cal = "refine"
  /\ IF test_bit # shift_right(high_bit, 10)
     THEN /\ loops_per_tick' =
               IF ~too_many_loops(bit_or(loops_per_tick, test_bit), capacity)
               THEN bit_or(loops_per_tick, test_bit)
               ELSE loops_per_tick
          /\ test_bit' = shift_right(test_bit, 1)
          /\ UNCHANGED <<cal, results>>
     ELSE /\ cal' = "idle"
          /\ results' = Append(results, loops_per_tick)
          /\ UNCHANGED <<loops_per_tick, test_bit>>
  /\ UNCHANGED high_bit
  /\ calib_frame

NextCalib ==
  \/ timer_calibrate_begin
  \/ timer_calibrate_double
  \/ timer_calibrate_refine

SpecCalib == InitCalib /\ [][NextCalib]_vars

(* ------------------- the MLFQS formulas on their own ------------------- *)
\* the kernel at tick TK with one thread running, nobody asleep and no load
Kernel(tk, mlfqs) ==
  /\ ticks = tk
  /\ blocked_threads = <<>>
  /\ time_to_wake = [t \in Threads |-> 0]
  /\ priority = [t \in Threads |-> 31]
  /\ thread_mlfqs = mlfqs
  /\ load_avg = 0
  /\ status = [t \in Threads |-> IF t = 1 THEN "RUNNING" ELSE "READY"]
  /\ current = 1
  /\ intr_level = "ON"
  /\ pc = [t \in Threads |-> "run"]
  /\ arg = [t \in Threads |-> 0]
  /\ x = [t \in Threads |-> "ON"]
  /\ unblocked = <<>>
  /\ reprioritized = {}
  /\ handled = 0
  /\ then = 0 - 1
  /\ mark = 0
  /\ loops_per_tick = BootLoops
  /\ high_bit = {}
  /\ test_bit = {}
  /\ cal = "idle"
  /\ capacity = BootLoops
  /\ results = <<>>
  /\ call = [t \in Threads |-> NoCall]
  /\ loops = [t \in Threads |-> 0]
  /\ handler_levels = <<"OFF", "OFF", "OFF">>
  /\ old_level = [t \in Threads |-> "ON"]

\* recent_cpu values a thread can have built up, from far below to far above
\* the ones that map into PRI_MIN..PRI_MAX
RecentCpuValues ==
  {int_to_fixed(0 - 400), int_to_fixed(0 - 94), int_to_fixed(0 - 92), 0 - 1, 0,
   int_to_fixed(1), int_to_fixed(3), int_to_fixed(252), int_to_fixed(2000)}

\* nice, NICE_MIN..NICE_MAX
NiceRange == {0 - 20, 0 - 5, 0, 20}

\* a second boundary has been reached with these recent_cpu and nice
InitPriority ==
  /\ Kernel(TIMER_FREQ, TRUE)
  /\ recent_cpu \in {[t \in Threads \cup {Idle} |-> IF t = Idle THEN 0 ELSE f[t]] :
                       f \in [Threads -> RecentCpuValues]}
  /\ nice \in [Threads -> NiceRange]

\* lines 257-274: the priority loop of the handler
mlfqs_priority_loop ==
  /\ mlfqs_active(thread_mlfqs) /\ priority_tick(ticks)
  /\ handled = 0
  /\ handled' = 1
  /\ priority' = [t \in Threads |-> calc_priority(recent_cpu[t], nice[t])]
  /\ UNCHANGED <<ticks, blocked_threads, time_to_wake, recent_cpu, nice, load_avg,
                 thread_mlfqs, status, current, intr_level, pc, arg, x, unblocked,
                 reprioritized, then, mark>>
  /\ UNCHANGED <<calib_vars, delay_vars, level_vars>>

NextPriority == mlfqs_priority_loop

SpecPriority == InitPriority /\ [][NextPriority]_vars

\* how many seconds the load average is followed for
MaxSeconds == 400

\* boot with MLFQS and no load
InitLoad ==
  /\ Kernel(0, TRUE)
  /\ recent_cpu = [t \in Threads \cup {Idle} |-> 0]
  /\ nice = [t \in Threads |-> 0]

\* lines 230-239 at each second boundary of a system whose ready count is 1:
\* one thread is running and the ready list is empty, or the idle thread was
\* interrupted and the drain has just made one thread ready.  The ticks in
\* between leave load_avg alone.
mlfqs_load_avg_second ==
  /\ mlfqs_active(thread_mlfqs)
  /\ ticks + TIMER_FREQ <= MaxSeconds * TIMER_FREQ
  /\ second_tick(ticks + TIMER_FREQ)
  /\ ticks' = ticks + TIMER_FREQ
  /\ handled' = handled + TIMER_FREQ
  /\ \E running \in {1, Idle}, coincide \in BOOLEAN :
       load_avg' = calc_load_avg(load_avg, IF running = Idle THEN 1 ELSE 0,
                                 running, coincide)
  /\ UNCHANGED <<blocked_threads, time_to_wake, priority, recent_cpu, nice,
                 thread_mlfqs, status, current, intr_level, pc, arg, x, unblocked,
                 reprioritized, then, mark>>
  /\ UNCHANGED <<calib_vars, delay_vars, level_vars>>

NextLoad == mlfqs_load_avg_second

SpecLoad == InitLoad /\ [][NextLoad]_vars

(* ======================================================================= *)
(* Properties                                                              *)
(* ======================================================================= *)
\* a step of the interrupt handler
HandlerStep == handled' # handled

Queued(t) == t \in Range(blocked_threads)

\* the queue is ascending in time_to_wake
SortedByWake ==
  \A i, j \in 1..Len(blocked_threads) :
    i < j => time_to_wake[blocked_threads[i]] <= time_to_wake[blocked_threads[j]]

\* entries with the same time_to_wake are in non-increasing priority order
TiesByPriority ==
  \A i, j \in 1..Len(blocked_threads) :
    (i < j /\ time_to_wake[blocked_threads[i]] = time_to_wake[blocked_threads[j]])
      => priority[blocked_threads[i]] >= priority[blocked_threads[j]]

\* C1: a handler invocation that advances the counter to T unblocks exactly
\* the queued threads with time_to_wake <= T: it calls thread_unblock on
\* them and on no other thread, removes them from blocked_threads, and
\* leaves every other queued thread queued and blocked.
C1_DrainExact ==
  [][HandlerStep =>
      LET due == {t \in Threads : Queued(t) /\ time_to_wake[t] <= ticks'}
      IN  /\ Range(unblocked') = due
          /\ Len(unblocked') = Cardinality(due)
          /\ Range(blocked_threads') = Range(blocked_threads) \ due
          /\ \A t \in due : status[t] = "BLOCKED" /\ status'[t] # "BLOCKED"
          /\ \A t \in Threads \ due : status[t] = "BLOCKED" => status'[t] = "BLOCKED"
          /\ \A t \in Range(blocked_threads') : time_to_wake[t] > ticks']_vars

\* C1 witness: a handler has just woken some threads and left another queued
C1_Witness ==
  /\ unblocked # <<>>
  /\ blocked_threads # <<>>

\* C2: a thread that called timer_sleep(n), n > 0, at tick t has
\* time_to_wake = t + n, is never left in the queue past that tick, leaves
\* the queue only in the handler step that advances the counter to t + n,
\* and, the timer interrupting forever, does leave it.
C2_WakesAtDeadline ==
  /\ [](\A t \in Threads :
          /\ (pc[t] = "insert" => time_to_wake[t] = ticks + arg[t])
          /\ ((Queued(t) /\ arg[t] > 0) => time_to_wake[t] > ticks))
  /\ [][\A t \in Threads :
          (Queued(t) /\ arg[t] > 0 /\ t \notin Range(blocked_threads'))
            => (HandlerStep /\ ticks' = time_to_wake[t] /\ status'[t] # "BLOCKED")]_vars
  /\ \A t \in Threads :
       (Queued(t) /\ arg[t] > 0)
         ~> (~Queued(t) /\ status[t] # "BLOCKED" /\ ticks = time_to_wake[t])

\* C2 witness: A slept 2 and B slept 1 at the same tick; the handler of B's
\* deadline has woken only B, and A waits for the next tick
C2_Witness ==
  \E a, b \in Threads :
    /\ unblocked = <<b>>
    /\ blocked_threads = <<a>>
    /\ arg[a] = 2 /\ arg[b] = 1
    /\ time_to_wake[b] = ticks /\ time_to_wake[a] = ticks + 1

\* C3 (as claimed): with interrupts enabled the queue is ascending in
\* time_to_wake and ties are in non-increasing order of thread priority.
C3_AsClaimed ==
  intr_level = "ON" => (SortedByWake /\ TiesByPriority)

\* C3: with interrupts enabled the queue is ascending in time_to_wake, and
\* ties are in non-increasing order of priority as long as no queued
\* thread's priority has been rewritten since it was inserted.
C3_Sorted ==
  intr_level = "ON" => (SortedByWake /\ (reprioritized = {} => TiesByPriority))

\* C3 witness: two queued threads tie on time_to_wake and differ in priority
C3_Witness ==
  /\ intr_level = "ON"
  /\ Len(blocked_threads) = 2
  /\ reprioritized = {}
  /\ time_to_wake[blocked_threads[1]] = time_to_wake[blocked_threads[2]]
  /\ priority[blocked_threads[1]] > priority[blocked_threads[2]]

\* C4 (as claimed): of two threads unblocked by one handler invocation the
\* one unblocked first has the priority >= the other's.
C4_AsClaimed ==
  [][HandlerStep =>
      \A i, j \in 1..Len(unblocked') :
        i < j => priority[unblocked'[i]] >= priority[unblocked'[j]]]_vars

\* C4: of two threads with the same time_to_wake unblocked by one handler
\* invocation the one unblocked first has the priority >= the other's,
\* provided no queued thread's priority was rewritten since its insertion.
C4_TiesInPriorityOrder ==
  [][(HandlerStep /\ reprioritized = {}) =>
      \A i, j \in 1..Len(unblocked') :
        (i < j /\ time_to_wake[unblocked'[i]] = time_to_wake[unblocked'[j]])
          => priority[unblocked'[i]] >= priority[unblocked'[j]]]_vars

\* C4 witness: one handler has unblocked two threads of the same
\* time_to_wake, the one of higher priority first
C4_Witness ==
  /\ Len(unblocked) = 2
  /\ time_to_wake[unblocked[1]] = time_to_wake[unblocked[2]]
  /\ priority[unblocked[1]] > priority[unblocked[2]]
  /\ ticks < TIMER_FREQ

\* C5: timer_sleep(n) with n <= 0 sets time_to_wake no later than the
\* current tick, still queues and blocks the caller, which gives up the
\* processor, and the next handler invocation unblocks it whatever else is
\* queued.
C5_NonPositiveSleep ==
  /\ [](\A t \in Threads :
          (arg[t] <= 0 /\ pc[t] \in {"insert", "block", "resume"})
            => time_to_wake[t] <= ticks)
  /\ [][\A t \in Threads :
          (arg[t] <= 0 /\ pc[t] = "block" /\ pc'[t] # "block")
            => (Queued(t) /\ status'[t] = "BLOCKED" /\ current' # t)]_vars
  /\ [][HandlerStep =>
          \A t \in Threads :
            (Queued(t) /\ arg[t] <= 0)
              => (t \in Range(unblocked') /\ status'[t] # "BLOCKED"
                  /\ t \notin Range(blocked_threads'))]_vars

\* C5 witness: a handler has just unblocked a thread that slept a negative
\* number of ticks, while another thread stays queued
C5_Witness ==
  \E t \in Threads :
    /\ arg[t] < 0
    /\ t \in Range(unblocked)
    /\ blocked_threads # <<>>

\* C6: whenever the handler can run (interrupts are enabled), a thread is in
\* blocked_threads exactly if it is blocked; so the handler never meets a
\* thread that is queued and not yet blocked, or blocked and not yet queued.
C6_QueuedIffBlocked ==
  intr_level = "ON" =>
    \A t \in Threads : Queued(t) <=> (status[t] = "BLOCKED")

\* C6 witness: inside timer_sleep's critical section the caller is queued
\* and still running
C6_Witness ==
  \E t \in Threads :
    /\ pc[t] = "block"
    /\ Queued(t)
    /\ status[t] = "RUNNING"
    /\ intr_level = "OFF"

\* C7: every handler invocation adds exactly 1 to the counter and nothing
\* else writes it, the drain already sees the new value, and timer_elapsed
\* of an earlier timer_ticks value is the number of invocations since.
C7_ClockCountsInterrupts ==
  /\ [](ticks = BootTicks + handled)
  /\ [](then # 0 - 1 => timer_elapsed(ticks, then) = handled - mark)
  /\ [][IF HandlerStep THEN ticks' = ticks + 1 ELSE ticks' = ticks]_vars
  /\ [][HandlerStep =>
          \A t \in Threads :
            (Queued(t) /\ time_to_wake[t] = ticks + 1) => t \in Range(unblocked')]_vars

\* C7 witness: the clock was read and interrupts have been handled since
C7_Witness ==
  /\ then # 0 - 1
  /\ handled - mark >= 2
  /\ timer_elapsed(ticks, then) = handled - mark

\* C8: without MLFQS a handler invocation leaves load_avg and every
\* thread's recent_cpu, priority and nice as they were.
C8_NoMlfqsNoWork ==
  [][(HandlerStep /\ ~thread_mlfqs) =>
      UNCHANGED <<load_avg, recent_cpu, priority, nice, time_to_wake>>]_vars

\* C8 witness: without MLFQS the handler has run at a tick that is a
\* multiple of 4 and of TIMER_FREQ
C8_Witness ==
  /\ ~thread_mlfqs
  /\ handled > 0
  /\ ticks = TIMER_FREQ

\* the threads that are ready or running, the idle thread left out, when the
\* handler has drained the queue
ReadyCount == Cardinality(ReadySet(status) \cup Range(unblocked'))
                + (IF current # Idle THEN 1 ELSE 0)

\* C9 (as claimed): with MLFQS, a handler invocation whose tick is a
\* multiple of TIMER_FREQ sets load_avg to (59/60)*load_avg +
\* (1/60)*ready_count.
C9_AsClaimed ==
  [][(HandlerStep /\ thread_mlfqs /\ ticks' % TIMER_FREQ = 0) =>
      load_avg' = add_two_fixed(
                    mul_two_fixed(div_fixed_int(int_to_fixed(59), 60), load_avg),
                    mul_fixed_int(div_fixed_int(int_to_fixed(1), 60), ReadyCount))]_vars

\* C10 (as claimed): with MLFQS, a handler invocation whose tick is a
\* multiple of 4 recomputes the priority of every thread but the idle one.
C10_AsClaimed ==
  [][(HandlerStep /\ thread_mlfqs /\ ticks' % 4 = 0) =>
      \A t \in Threads : priority'[t] = calc_priority(recent_cpu'[t], nice[t])]_vars

\* the priority of spec 4.3: PRI_MAX - recent_cpu/4 - 2*nice, to the nearest
\* integer, clamped to PRI_MIN..PRI_MAX
PriorityAsSpecified(rc, nc) ==
  LET v == sub_fixed_int(sub_two_fixed(int_to_fixed(63), div_fixed_int(rc, 4)), nc * 2)
      p == fixed_to_nearest_int(v)
  IN  IF p > 63 THEN 63 ELSE IF p < 0 THEN 0 ELSE p

\* C11 (as claimed): whenever the handler recomputes the priorities, each
\* thread's new priority is PRI_MAX - recent_cpu/4 - 2*nice rounded to the
\* nearest integer and clamped to 0..63; a thread with recent_cpu = 0 and
\* nice = 0 gets PRI_MAX.
C11_AsClaimed ==
  [][(HandlerStep /\ thread_mlfqs /\ priority_tick(ticks')) =>
      \A t \in Threads :
        /\ priority'[t] = PriorityAsSpecified(recent_cpu'[t], nice[t])
        /\ (recent_cpu'[t] = 0 /\ nice[t] = 0) => priority'[t] = 63]_vars

\* the whole ticks of a call's duration, rounded down
CallTicks(t) == (call[t][2] * TIMER_FREQ) \div call[t][3]

InSleep(t) == pc[t] \in {"wake", "insert", "block", "resume"}

\* C12: a timer_msleep/usleep/nsleep call whose duration is at least one
\* tick is a timer_sleep of num*TIMER_FREQ/denom ticks, rounded down: the
\* caller is queued with time_to_wake that many ticks ahead and blocked; a
\* shorter one only busy-waits, and so does every timer_mdelay/udelay/ndelay:
\* the caller is never queued or blocked and its busy-wait steps leave the
\* sleep queue alone.
C12_SleepOrBusyWait ==
  /\ [](\A t \in Threads :
          /\ (call[t][1] = "real_time_sleep" /\ CallTicks(t) > 0)
               => (InSleep(t) /\ arg[t] = CallTicks(t) /\ loops[t] = 0)
          /\ (call[t][1] = "real_time_sleep" /\ CallTicks(t) <= 0)
               => (pc[t] = "spin" /\ ~Queued(t) /\ status[t] # "BLOCKED")
          /\ (call[t][1] = "real_time_delay")
               => (pc[t] = "spin" /\ ~Queued(t) /\ status[t] # "BLOCKED")
          /\ (call[t][1] = "none") => pc[t] = "run")
  /\ [][\A t \in Threads :
          (call[t][1] = "real_time_sleep" /\ pc[t] = "block" /\ pc'[t] = "resume")
            => (t \in Range(blocked_threads') /\ status'[t] = "BLOCKED"
                /\ time_to_wake[t] = ticks + CallTicks(t))]_vars
  /\ [][\A t \in Threads :
          (pc[t] = "spin" /\ pc'[t] = "run") \/ (pc[t] = "run" /\ pc'[t] = "spin")
            => (blocked_threads' = blocked_threads /\ status' = status)]_vars

\* C12 witness: one thread sleeps 25 ms as 2 ticks, queued and blocked,
\* while another busy-waits a sleep shorter than a tick
C12_Witness ==
  \E a, b \in Threads :
    /\ call[a] = <<"real_time_sleep", 25, 1000>>
    /\ Queued(a) /\ status[a] = "BLOCKED" /\ arg[a] = 2
    /\ call[b][1] = "real_time_sleep" /\ CallTicks(b) = 0
    /\ pc[b] = "spin" /\ loops[b] > 0

\* C13: a completed timer_calibrate never leaves loops_per_tick zero, and on
\* a stable clock every later run ends with the loops_per_tick of the first.
C13_CalibrationStable ==
  /\ \A i \in 1..Len(results) : results[i] # {} /\ results[i] = results[1]
  /\ (cal = "idle" /\ results # <<>>) =>
       (loops_per_tick # {} /\ loops_per_tick = results[Len(results)])

\* C13 witness: two runs have completed on a machine where the refinement
\* sets bits
C13_Witness ==
  /\ Len(results) = 2
  /\ cal = "idle"
  /\ capacity = Bits(1048575)
  /\ Cardinality(results[2]) > 1

\* a leading bit at position 10 or above and any of the K positions below it
FormOf(k) ==
  UNION {{{h} \cup S : S \in SUBSET ((h - k)..(h - 1))} : h \in 10..(UINT_BITS - 1)}

\* C19 (as claimed): a completed timer_calibrate leaves L = loops_per_tick
\* with L <= C, L a leading bit (2^10 or above) plus some of the 8 positions
\* right below it, and no value of that form that fits in C is larger.
C19_AsClaimed ==
  \A i \in 1..Len(results) :
    /\ ~unsigned_greater(results[i], capacity)
    /\ results[i] \in FormOf(8)
    /\ \A v \in FormOf(8) :
         ~unsigned_greater(v, capacity) => ~unsigned_greater(v, results[i])

\* C14: timer_sleep saves the level it is entered with, keeps it for the
\* whole call and returns with it; timer_ticks returns with the level it is
\* called with, also inside timer_sleep's critical section, which it leaves
\* masked; the handler returns with the level it is entered with, its
\* timer_ticks calls leaving interrupts off.
C14_LevelsRestored ==
  /\ [][\A t \in Threads :
          (pc[t] = "run" /\ pc'[t] = "wake") => x'[t] = intr_level]_vars
  /\ [][\A t \in Threads :
          (pc[t] # "run" /\ pc'[t] # "run") => x'[t] = x[t]]_vars
  /\ [][\A t \in Threads :
          (pc[t] = "resume" /\ pc'[t] = "run") => intr_level' = x[t]]_vars
  /\ [][\A t \in Threads :
          (pc[t] = "wake" /\ pc'[t] = "insert")
            => (intr_level = "OFF" /\ intr_level' = "OFF")]_vars
  /\ [][\A t \in Threads :
          (pc[t] = "run" /\ pc'[t] = "ticks") => old_level'[t] = intr_level]_vars
  /\ [][\A t \in Threads :
          (pc[t] = "ticks" /\ pc'[t] = "run") => intr_level' = old_level[t]]_vars
  /\ [][HandlerStep =>
          /\ handler_levels'[3] = handler_levels'[1]
          /\ handler_levels'[2] = "OFF"]_vars

\* C14 witness: a thread that called timer_sleep with interrupts off has
\* been woken and has returned, interrupts still off
C14_Witness ==
  \E t \in Threads :
    /\ current = t /\ pc[t] = "run"
    /\ x[t] = "OFF" /\ intr_level = "OFF"
    /\ time_to_wake[t] = 0 /\ handled > 0
    /\ unblocked = <<>>

\* C15: with MLFQS every handler invocation adds fixed-point 1 to the
\* recent_cpu of the thread it interrupted unless that is the idle thread,
\* whose recent_cpu it leaves alone; on a tick that is not a multiple of
\* TIMER_FREQ every other recent_cpu is unchanged, and on a multiple the 1
\* is added before the decay.
C15_RecentCpuTick ==
  [][(HandlerStep /\ thread_mlfqs) =>
      /\ recent_cpu'[Idle] = recent_cpu[Idle]
      /\ ticks' % TIMER_FREQ # 0 =>
           \A t \in Threads :
             recent_cpu'[t] = IF t = current THEN recent_cpu[t] + int_to_fixed(1)
                              ELSE recent_cpu[t]
      /\ ticks' % TIMER_FREQ = 0 =>
           \A t \in Threads :
             recent_cpu'[t] =
               calc_recent_cpu(load_avg',
                               IF t = current THEN recent_cpu[t] + int_to_fixed(1)
                               ELSE recent_cpu[t],
                               nice[t])]_vars

\* C15 witness: of four ticks two were charged to one thread, one to the
\* other and one, with both asleep, to nobody
C15_Witness ==
  \E a, b \in Threads :
    /\ thread_mlfqs
    /\ handled = 4
    /\ recent_cpu[a] = int_to_fixed(2)
    /\ recent_cpu[b] = int_to_fixed(1)
    /\ recent_cpu[Idle] = 0

\* the decay of spec 4.3: (2*load_avg)/(2*load_avg + 1) * recent_cpu + nice
RecentCpuAsSpecified(la, rc, nc) ==
  add_fixed_int(
    mul_two_fixed(div_two_fixed(mul_fixed_int(la, 2),
                                add_fixed_int(mul_fixed_int(la, 2), 1)),
                  rc),
    nc)

\* C16: with MLFQS, a handler invocation whose tick is a multiple of
\* TIMER_FREQ decays the recent_cpu of every thread but the idle one with
\* the coefficient of the load_avg that this same invocation has just
\* computed, and leaves the idle thread's recent_cpu alone.
C16_DecayUsesNewLoadAvg ==
  [][(HandlerStep /\ thread_mlfqs /\ ticks' % TIMER_FREQ = 0) =>
      /\ \A t \in Threads :
           recent_cpu'[t] =
             RecentCpuAsSpecified(load_avg',
                                  mlfqs_recent_cpu_tick(recent_cpu, current)[t],
                                  nice[t])
      /\ recent_cpu'[Idle] = recent_cpu[Idle]]_vars

\* C16 witness: the handler of the first second boundary has raised
\* load_avg from 0 and decayed a recent_cpu of several ticks with the new
\* coefficient, which leaves 528/16384 of it; the old one would leave nothing
C16_Witness ==
  \E t \in Threads :
    /\ thread_mlfqs
    /\ ticks = TIMER_FREQ /\ handled = Lead
    /\ load_avg = div_fixed_int(int_to_fixed(1), 60)
    /\ nice[t] = 0
    /\ recent_cpu[t] = mul_two_fixed(528, int_to_fixed(3))

\* C17: every priority the MLFQS step writes lies in PRI_MIN..PRI_MAX =
\* 0..63, whatever the thread's recent_cpu (negative ones included) and nice.
C17_PriorityInRange ==
  \A t \in Threads : priority[t] >= 0 /\ priority[t] <= 63

\* C17 witness: the loop has clamped one thread's priority at PRI_MAX (the
\* value before clamping is 140) and the other's at PRI_MIN (-540)
C17_Witness ==
  \E a, b \in Threads :
    /\ handled = 1
    /\ recent_cpu[a] = int_to_fixed(0 - 400) /\ nice[a] = 0 - 20
    /\ priority[a] = 63
    /\ recent_cpu[b] = int_to_fixed(2000) /\ nice[b] = 20
    /\ priority[b] = 0

\* C18: with MLFQS, load_avg 0 at boot and a ready count of 1 at every
\* second boundary, load_avg never decreases from one second to the next,
\* never exceeds fixed-point 1, and comes within 1/128 of 1 (it settles 119
\* units of 2^-14 below it after 368 seconds).
C18_LoadAvgConverges ==
  /\ [][load_avg' >= load_avg]_vars
  /\ [](load_avg <= int_to_fixed(1))
  /\ [](ticks >= 368 * TIMER_FREQ =>
          load_avg >= int_to_fixed(1) - div_fixed_int(int_to_fixed(1), 128))

\* C18 witness: after 368 seconds load_avg has settled just below 1
C18_Witness ==
  /\ ticks > 368 * TIMER_FREQ
  /\ load_avg = int_to_fixed(1) - 119

\* C20: a thread is in blocked_threads at most once; it enters the queue
\* only by the insertion of its timer_sleep call and leaves it only by the
\* drain, which removes it and unblocks it in the same invocation, once; a
\* queued thread is blocked (or is still inside timer_sleep's masked
\* section), never ready; once unblocked it is not queued or unblocked again
\* before timer_sleep returns; and every queued thread is drained in the end.
C20_OneRemovalPerSleep ==
  /\ [](Cardinality(Range(blocked_threads)) = Len(blocked_threads))
  /\ [](\A t \in Threads :
          /\ Queued(t) =>
               \/ status[t] = "BLOCKED"
               \/ (status[t] = "RUNNING" /\ pc[t] = "block" /\ intr_level = "OFF")
          /\ (pc[t] = "resume" /\ ~Queued(t)) => status[t] # "BLOCKED"
          /\ pc[t] \in {"run", "wake", "insert"} => ~Queued(t))
  /\ [][\A t \in Threads :
          (~Queued(t) /\ t \in Range(blocked_threads'))
            => (pc[t] = "insert" /\ pc'[t] = "block")]_vars
  /\ [][\A t \in Threads :
          (Queued(t) /\ t \notin Range(blocked_threads'))
            => (HandlerStep /\ t \in Range(unblocked') /\ status[t] = "BLOCKED"
                /\ status'[t] # "BLOCKED")]_vars
  /\ [][HandlerStep =>
          /\ Cardinality(Range(unblocked')) = Len(unblocked')
          /\ \A t \in Range(unblocked') :
               Queued(t) /\ pc[t] = "resume" /\ t \notin Range(blocked_threads')]_vars
  /\ [][\A t \in Threads :
          (pc[t] = "resume" /\ pc'[t] = "run") => ~Queued(t)]_vars
  /\ \A t \in Threads : Queued(t) ~> ~Queued(t)

\* C20 witness: one handler invocation has removed and unblocked both
\* sleepers, neither of which has returned from timer_sleep yet
C20_Witness ==
  /\ Len(unblocked) = 2
  /\ blocked_threads = <<>>
  /\ \A t \in Range(unblocked) : pc[t] = "resume" /\ status[t] # "BLOCKED"

====
